---------------------------- MODULE Spec2Model ----------------------------
(***************************************************************************)
(* Admission-control pipeline of the Airtable gateway                      *)
(* (src/mcp-airtable/airtable-mcp-server.js).                              *)
(*                                                                         *)
(* Every route is an Express array of middlewares ending in a handler.     *)
(* A request walks its array: a middleware either calls next() (control    *)
(* passes to the following entry) or sends a response and returns.  The    *)
(* handler validates the payload, calls the upstream (Airtable) through    *)
(* AirtableProvider and sends the result.  The only state shared between   *)
(* requests is the hit counters of the two express-rate-limit instances.   *)
(***************************************************************************)
EXTENDS Integers, Sequences, FiniteSets, TLC

\* ------------------------------------------------------------------------
\* Bounds of the model
\* ------------------------------------------------------------------------

\* Number of request slots that may be in flight together (SpecConc).
MaxReq == 2

\* How many requests may still arrive on a limiter key once it is exhausted.
MaxOver == 1

\* Requests per window and key sent to the per-user limiter in Spec and
\* SpecKeys (SpecConc sends enough to exhaust it).
MaxUserBurst == 2

\* Upstream calls of a request that the model counts.  In SpecLive the
\* upstream may answer 429 beyond them; in the other specifications it stops
\* answering 429 after that many calls.
MaxCalls == 3

\* ------------------------------------------------------------------------
\* Program constants
\* ------------------------------------------------------------------------

\* rateLimit({ max: 5 }) of configureRateLimiter
BaseLimiterMax == 5

\* rateLimit({ max: 50 }) of configureUserRateLimiter
UserLimiterMax == 50

\* Maximum records per request checked by the records handlers
MaxRecordsPerRequest == 10

\* setTimeout(resolve, 30000) of the response interceptor
CooldownMs == 30000

\* "5 requests per second per base" of the usage guide
DocBaseLimit == 5

\* "50 requests per second ... from a given user" of the usage guide
DocUserLimit == 50

\* "Billing Plan Features" of the usage guide: the plans ticked in the row
\* of each feature.
DocPlansOf(feature) ==
  CASE feature = "base_data" ->
         {"free", "teams", "business", "enterprise_scale"}
    [] feature = "scim_user_management" -> {"business", "enterprise_scale"}
    [] feature \in {"views", "schema_modification", "webhooks",
                    "enterprise_api", "change_events"} -> {"enterprise_scale"}
    [] OTHER -> {}

\* "UNAUTHORIZED: Authentication is required (401)" of the usage guide
DocUnauthorizedType == "UNAUTHORIZED"

\* "Common error types" of the usage guide
DocErrorTypes ==
  {"INVALID_REQUEST", "UNAUTHORIZED", "INSUFFICIENT_PERMISSIONS",
   "FEATURE_UNAVAILABLE", "NOT_FOUND", "CONFIRMATION_REQUIRED",
   "RATE_LIMIT_REACHED", "SERVER_ERROR"}

\* ------------------------------------------------------------------------
\* Values
\* ------------------------------------------------------------------------

\* An absent header, parameter or field (JavaScript undefined).
None == "<undefined>"

\* An absent records field; a number n stands for a list of n records.
NoRecords == -1

Ops ==
  {"getBases", "getBaseSchema", "getTableRecords", "getRecord", "createRecords",
   "updateRecords", "deleteRecords", "createField", "updateField",
   "listWebhooks", "createWebhook", "deleteWebhook", "getAuditLogs",
   "getEnterpriseUsers"}

\* ------------------------------------------------------------------------
\* BillingPlanModel
\* ------------------------------------------------------------------------

PLANS == <<"free", "teams", "business", "enterprise_scale">>

FEATURES ==
  {"base_data", "views", "schema_modification", "webhooks",
   "scim_user_management", "enterprise_api", "change_events"}

\* PLAN_FEATURES: the features listed under each plan.
PLAN_FEATURES(plan) ==
  CASE plan = "free" -> {"base_data"}
    [] plan = "teams" -> {"base_data"}
    [] plan = "business" -> {"base_data", "scim_user_management"}
    [] plan = "enterprise_scale" ->
         {"base_data", "views", "schema_modification", "webhooks",
          "scim_user_management", "enterprise_api", "change_events"}

KnownPlan(plan) == \E i \in 1..Len(PLANS) : PLANS[i] = plan

\* Mutant of hasFeature: a feature some plan lists is granted to every plan.
hasFeatureFromAnyTier(plan, feature) ==
  IF ~KnownPlan(plan) THEN "throws"
  ELSE IF \E i \in 1..Len(PLANS) : feature \in PLAN_FEATURES(PLANS[i])
       THEN "true" ELSE "false"

\* Mutant of hasFeature: a plan that is no key of PLAN_FEATURES is given the
\* features of the free plan.
hasFeatureUnknownAsFree(plan, feature) ==
  IF ~KnownPlan(plan)
  THEN IF feature \in PLAN_FEATURES("free") THEN "true" ELSE "false"
  ELSE IF feature \in PLAN_FEATURES(plan) THEN "true" ELSE "false"

\* hasFeature: "throws" for a plan that is no key of PLAN_FEATURES.
hasFeature(plan, feature) ==
  IF ~KnownPlan(plan) THEN "throws"
  ELSE IF feature \in PLAN_FEATURES(plan) THEN "true" ELSE "false"

\* getMinimumPlanForFeature: the first plan, in the table's order, that lists
\* the feature.
getMinimumPlanForFeature(feature) ==
  IF \E i \in 1..Len(PLANS) : feature \in PLAN_FEATURES(PLANS[i])
  THEN PLANS[CHOOSE i \in 1..Len(PLANS) :
               /\ feature \in PLAN_FEATURES(PLANS[i])
               /\ \A j \in 1..(i - 1) : feature \notin PLAN_FEATURES(PLANS[j])]
  ELSE "throws"

\* ------------------------------------------------------------------------
\* TokenScopeModel
\* ------------------------------------------------------------------------

RECORDS_READ == "data.records:read"
RECORDS_WRITE == "data.records:write"

\* ENDPOINT_SCOPES: the scopes required per endpoint name ([] when the name
\* is no key of the table).
ENDPOINT_SCOPES(endpoint) ==
  CASE endpoint \in {"getTableRecords", "getRecord"} -> <<RECORDS_READ>>
    [] endpoint \in {"createRecords", "updateRecords", "deleteRecords"} ->
         <<RECORDS_WRITE>>
    [] endpoint = "getComments" -> <<"data.recordComments:read">>
    [] endpoint \in {"createComment", "deleteComment", "updateComment"} ->
         <<"data.recordComments:write">>
    [] endpoint \in {"getBases", "getBaseSchema"} -> <<"schema.bases:read">>
    [] endpoint \in {"createField", "updateField"} -> <<"schema.bases:write">>
    [] endpoint \in {"listWebhooks", "createWebhook", "deleteWebhook"} ->
         <<"webhook:manage">>
    [] endpoint = "getAuditLogs" -> <<"enterprise.auditLogs:read">>
    [] endpoint = "getEnterpriseUsers" -> <<"enterprise.user:read">>
    [] OTHER -> <<>>

\* Mutant of hasRequiredScope: a token with any scope has the required one.
hasRequiredScopeAnyGranted(tokenScopes, requiredScope) ==
  Len(tokenScopes) > 0

hasRequiredScope(tokenScopes, requiredScope) ==
  \E i \in 1..Len(tokenScopes) : tokenScopes[i] = requiredScope

hasRequiredScopesForEndpoint(tokenScopes, endpoint) ==
  \A i \in 1..Len(ENDPOINT_SCOPES(endpoint)) :
    hasRequiredScope(tokenScopes, ENDPOINT_SCOPES(endpoint)[i])

\* ------------------------------------------------------------------------
\* Header values and the string functions applied to them
\* ------------------------------------------------------------------------

\* Every scope some routed endpoint requires, as one X-Token-Scopes value.
AllScopesHeader ==
  "data.records:read,data.records:write,schema.bases:read,schema.bases:write,webhook:manage,enterprise.auditLogs:read,enterprise.user:read"

\* String.prototype.split(',') on the X-Token-Scopes values of the model.
SplitComma(s) ==
  CASE s = AllScopesHeader ->
         <<"data.records:read", "data.records:write", "schema.bases:read",
           "schema.bases:write", "webhook:manage", "enterprise.auditLogs:read",
           "enterprise.user:read">>
    [] s = "data.records:read, data.records:write" ->
         <<"data.records:read", " data.records:write">>
    [] OTHER -> <<s>>

\* String.prototype.toLowerCase() on the confirmation header values.
ToLowerCase(s) ==
  CASE s \in {"TRUE", "True", "true"} -> "true"
    [] s \in {"FALSE", "False", "false"} -> "false"
    [] OTHER -> s

\* The Authorization header as the list of its space-separated parts
\* (authHeader.split(' ')); <<>> is the absent header.
StartsWithBearer(authHeader) ==
  Len(authHeader) >= 2 /\ authHeader[1] = "Bearer"


\* ------------------------------------------------------------------------
\* Controllers: the middleware array bound to each route
\* ------------------------------------------------------------------------

\* The feature each controller passes to featureCheckMiddleware.
FeatureOf(op) ==
  CASE op \in {"createField", "updateField"} -> "schema_modification"
    [] op \in {"listWebhooks", "createWebhook", "deleteWebhook"} -> "webhooks"
    [] op \in {"getAuditLogs", "getEnterpriseUsers"} -> "enterprise_api"
    [] OTHER -> "base_data"

\* Mutant of ScopeEndpointOf: one controller passes a misspelt name.
ScopeEndpointMisspelt(op) == IF op = "getRecord" THEN "getRecords" ELSE op

\* The endpoint name each controller passes to scopeCheckMiddleware.
ScopeEndpointOf(op) == op

\* The rate limiter instance in each controller's array.
LimiterOf(op) ==
  IF op \in {"getBases", "getAuditLogs", "getEnterpriseUsers"}
  THEN "userRateLimitMiddleware"
  ELSE "baseRateLimitMiddleware"

\* Mutant of Chain: the rate limiter is placed before the scope check.
ChainLimiterBeforeScope(op) ==
  IF op \in {"deleteRecords", "deleteWebhook"}
  THEN <<"authMiddleware", "featureCheckMiddleware", LimiterOf(op),
         "scopeCheckMiddleware", "confirmDestructiveOperationMiddleware",
         "handler">>
  ELSE <<"authMiddleware", "featureCheckMiddleware", LimiterOf(op),
         "scopeCheckMiddleware", "handler">>

\* Mutant of Chain: the two routes that read records carry no limiter.
ChainReadsUnlimited(op) ==
  IF op \in {"deleteRecords", "deleteWebhook"}
  THEN <<"authMiddleware", "featureCheckMiddleware", "scopeCheckMiddleware",
         "confirmDestructiveOperationMiddleware", LimiterOf(op), "handler">>
  ELSE IF op \in {"getTableRecords", "getRecord"}
  THEN <<"authMiddleware", "featureCheckMiddleware", "scopeCheckMiddleware",
         "handler">>
  ELSE <<"authMiddleware", "featureCheckMiddleware", "scopeCheckMiddleware",
         LimiterOf(op), "handler">>

\* The controller arrays, in the order Express runs them.
Chain(op) ==
  IF op \in {"deleteRecords", "deleteWebhook"}
  THEN <<"authMiddleware", "featureCheckMiddleware", "scopeCheckMiddleware",
         "confirmDestructiveOperationMiddleware", LimiterOf(op), "handler">>
  ELSE <<"authMiddleware", "featureCheckMiddleware", "scopeCheckMiddleware",
         LimiterOf(op), "handler">>

\* Routes whose path carries :baseId.
HasBaseId(op) == op \notin {"getBases", "getAuditLogs", "getEnterpriseUsers"}

\* Handlers that read a batch of records from the request.
BatchOps == {"createRecords", "updateRecords", "deleteRecords"}

\* Handlers that validate other fields of the body.
BodyCheckedOps == {"createField", "updateField", "createWebhook"}

Limiters == {"baseRateLimitMiddleware", "userRateLimitMiddleware"}

\* Mutant of LimiterMaxOf: each instance admits one request too many.
LimiterMaxOffByOne(l) ==
  IF l = "baseRateLimitMiddleware"
  THEN BaseLimiterMax + 1 ELSE UserLimiterMax + 1

\* max of each rateLimit(...) instance.
LimiterMaxOf(l) ==
  IF l = "baseRateLimitMiddleware" THEN BaseLimiterMax ELSE UserLimiterMax

\* Mutant of LimiterMessageOf: the two messages are exchanged.
LimiterMessageSwapped(l) ==
  IF l = "baseRateLimitMiddleware"
  THEN "USER_RATE_LIMIT_REACHED" ELSE "RATE_LIMIT_REACHED"

\* message.error of each rateLimit(...) instance.
LimiterMessageOf(l) ==
  IF l = "baseRateLimitMiddleware"
  THEN "RATE_LIMIT_REACHED" ELSE "USER_RATE_LIMIT_REACHED"

\* keyGenerator of both instances: none is configured, so express-rate-limit
\* uses its default, the client address req.ip.
LimiterKeyOf(l, req) == req.ip

\* ------------------------------------------------------------------------
\* Requests
\* ------------------------------------------------------------------------

Slots == 1..MaxReq

Ips == {"ip1", "ip2"}
Bases == {"appA", "appB"}
Tokens == {"patA", "patB"}

\* The keys a limiter's store may count under.
Keys == Ips \cup Bases \cup Tokens

\* No response sent yet.
NoResponse == [status |-> 0, type |-> None]

\* A request as the router hands it to the first middleware.
NewRequest(in) ==
  [ctl |-> "run", idx |-> 1, op |-> in.op, ip |-> in.ip, baseId |-> in.baseId,
   authorization |-> in.authorization, xBillingPlan |-> in.xBillingPlan,
   xTokenScopes |-> in.xTokenScopes, xConfirm |-> in.xConfirm,
   records |-> in.records, destructive |-> in.destructive,
   bodyOk |-> in.bodyOk,
   token |-> None, billingPlan |-> None, tokenScopes |-> <<>>,
   counted |-> {},
   passed |-> {}, calls |-> 0, method |-> None, sentToken |-> None,
   answers |-> <<>>, waited |-> 0, caught |-> None,
   sent |-> 0, res |-> NoResponse, requiredPlan |-> None,
   namedScopes |-> <<>>]

\* The slot holds no request.
Idle ==
  [NewRequest([op |-> None, ip |-> None, baseId |-> None,
               authorization |-> <<>>, xBillingPlan |-> None,
               xTokenScopes |-> None, xConfirm |-> None,
               records |-> NoRecords, destructive |-> FALSE,
               bodyOk |-> TRUE])
   EXCEPT !.ctl = "idle", !.idx = 0]

\* The inputs of a request: the fields its route and handler never read are
\* absent.
InputSet(ops, auths, plans, scopes, confirms, recs, bases, ips) ==
  { in \in [op : ops, ip : ips, baseId : bases \cup {None},
            authorization : auths, xBillingPlan : plans,
            xTokenScopes : scopes, xConfirm : confirms \cup {None},
            records : recs \cup {NoRecords}, destructive : BOOLEAN,
            bodyOk : BOOLEAN] :
      /\ (in.baseId = None) <=> ~HasBaseId(in.op)
      /\ in.op \notin BatchOps => in.records = NoRecords
      /\ in.destructive => in.op = "updateRecords"
      /\ ~in.bodyOk => in.op \in BodyCheckedOps
      /\ (in.xConfirm # None) =>
           \/ in.op \in {"deleteRecords", "deleteWebhook"}
           \/ in.op = "updateRecords" /\ in.destructive }

VARIABLES
  reqs,   \* the request in each slot, with what the middlewares attached to it
  hits    \* the hit counter of each limiter instance, per key

vars == <<reqs, hits>>

Init ==
  /\ reqs = [r \in Slots |-> Idle]
  /\ hits = [l \in Limiters |-> [k \in Keys |-> 0]]

\* Mutant of Running: no code runs while some request sits in its cooldown
\* (the wait blocks the process).
RunningUnlessCooldown(r, stage) ==
  /\ \A other \in Slots : reqs[other].ctl # "cooldown"
  /\ reqs[r].ctl = "run"
  /\ Chain(reqs[r].op)[reqs[r].idx] = stage

Running(r, stage) ==
  /\ reqs[r].ctl = "run"
  /\ Chain(reqs[r].op)[reqs[r].idx] = stage

\* Mutant of Reject: the response is sent and next() is called all the same.
RejectAndCallNext(req, status, type) ==
  [req EXCEPT !.idx = IF @ < Len(Chain(req.op)) THEN @ + 1 ELSE @,
              !.sent = @ + 1,
              !.res = [status |-> status, type |-> type]]

\* res.status(status).json({ error: { type } }) without calling next().
Reject(req, status, type) ==
  [req EXCEPT !.ctl = "ended", !.sent = @ + 1,
              !.res = [status |-> status, type |-> type]]

\* Mutant of CatchAndRespond: the exception leaves the function and Express
\* hands it to the application's error middleware.
ThrowToErrorMiddleware(req, where, response) ==
  [req EXCEPT !.ctl = "thrown"]

\* catch (error) { ... res.status(...).json(...) } of a middleware or a
\* handler: the exception ends there as a response.
CatchAndRespond(req, where, response) ==
  [Reject(req, response.status, response.type) EXCEPT !.caught = where]

\* Mutant of CallNext: passing control resets the plan tier the request
\* carries to the default one.
CallNextResettingPlan(req, stage) ==
  [req EXCEPT !.idx = @ + 1, !.passed = @ \cup {stage},
              !.billingPlan = "free"]

\* next(): control passes to the following entry of the array.
CallNext(req, stage) ==
  [req EXCEPT !.idx = @ + 1, !.passed = @ \cup {stage}]

\* A request with inputs from the given set arrives on a route.  The guard
\* bounds the traffic: no further request is sent on a limiter key that
\* already counts cap[l] hits.
Arrive(r, inputs, cap) ==
  /\ reqs[r].ctl = "idle"
  /\ \E in \in inputs :
       /\ hits[LimiterOf(in.op)][in.ip] < cap[LimiterOf(in.op)]
       /\ reqs' = [reqs EXCEPT ![r] = NewRequest(in)]
  /\ UNCHANGED hits

\* ------------------------------------------------------------------------
\* Middlewares
\* ------------------------------------------------------------------------

\* authMiddleware: the outcome for an Authorization header.
AuthOutcome(authHeader) ==
  IF ~StartsWithBearer(authHeader) THEN "reject"
  ELSE IF authHeader[2] = "" THEN "reject"
  ELSE "next"

\* req.billingPlan = req.headers['x-billing-plan'] || 'free'
BillingPlanOf(xBillingPlan) ==
  IF xBillingPlan \in {None, ""} THEN "free" ELSE xBillingPlan

\* Mutant of TokenScopesOf: a request without the scopes header is given
\* the read and the write scope on records.
TokenScopesDefaultReadWrite(xTokenScopes) ==
  IF xTokenScopes \in {None, ""} THEN <<RECORDS_READ, RECORDS_WRITE>>
  ELSE SplitComma(xTokenScopes)

\* req.tokenScopes = header ? header.split(',') : [RECORDS_READ]
TokenScopesOf(xTokenScopes) ==
  IF xTokenScopes \in {None, ""} THEN <<RECORDS_READ>>
  ELSE SplitComma(xTokenScopes)

AuthMiddleware(r) ==
  /\ Running(r, "authMiddleware")
  /\ LET req == reqs[r] IN
       reqs' = [reqs EXCEPT ![r] =
         IF AuthOutcome(req.authorization) = "reject"
         THEN Reject(req, 401, "INVALID_REQUEST")
         ELSE CallNext([req EXCEPT
                          !.token = req.authorization[2],
                          !.billingPlan = BillingPlanOf(req.xBillingPlan),
                          !.tokenScopes = TokenScopesOf(req.xTokenScopes)],
                       "authMiddleware")]
  /\ UNCHANGED hits

\* featureCheckMiddleware(feature): the response it sends, or "next".
FeatureOutcome(billingPlan, feature) ==
  CASE hasFeature(billingPlan, feature) = "throws" -> "SERVER_ERROR"
    [] hasFeature(billingPlan, feature) = "false" ->
         IF getMinimumPlanForFeature(feature) = "throws"
         THEN "SERVER_ERROR" ELSE "FEATURE_UNAVAILABLE"
    [] OTHER -> "next"

FeatureCheckMiddleware(r) ==
  /\ Running(r, "featureCheckMiddleware")
  /\ LET req == reqs[r]
         out == FeatureOutcome(req.billingPlan, FeatureOf(req.op)) IN
       reqs' = [reqs EXCEPT ![r] =
         CASE out = "SERVER_ERROR" ->
                CatchAndRespond(req, "featureCheckMiddleware",
                                [status |-> 500, type |-> "SERVER_ERROR"])
           [] out = "FEATURE_UNAVAILABLE" ->
                Reject([req EXCEPT !.requiredPlan =
                          getMinimumPlanForFeature(FeatureOf(req.op))],
                       403, "FEATURE_UNAVAILABLE")
           [] OTHER -> CallNext(req, "featureCheckMiddleware")]
  /\ UNCHANGED hits

ScopeCheckMiddleware(r) ==
  /\ Running(r, "scopeCheckMiddleware")
  /\ LET req == reqs[r] IN
       reqs' = [reqs EXCEPT ![r] =
         IF ~hasRequiredScopesForEndpoint(req.tokenScopes,
                                          ScopeEndpointOf(req.op))
         THEN Reject([req EXCEPT !.namedScopes =
                        ENDPOINT_SCOPES(ScopeEndpointOf(req.op))],
                     403, "INSUFFICIENT_PERMISSIONS")
         ELSE CallNext(req, "scopeCheckMiddleware")]
  /\ UNCHANGED hits

\* Mutant of ConfirmationGiven: any non-empty header value confirms.
ConfirmationGivenAnyValue(confirmation) == confirmation \notin {None, ""}

\* !(!confirmation || confirmation.toLowerCase() !== 'true')
ConfirmationGiven(confirmation) ==
  /\ confirmation \notin {None, ""}
  /\ ToLowerCase(confirmation) = "true"

ConfirmDestructiveOperationMiddleware(r) ==
  /\ Running(r, "confirmDestructiveOperationMiddleware")
  /\ LET req == reqs[r] IN
       reqs' = [reqs EXCEPT ![r] =
         IF ~ConfirmationGiven(req.xConfirm)
         THEN Reject(req, 400, "CONFIRMATION_REQUIRED")
         ELSE CallNext(req, "confirmDestructiveOperationMiddleware")]
  /\ UNCHANGED hits

\* A rateLimit(...) instance: it counts the hit under the request's key,
\* attaches the count to the request (req.rateLimit; the model keeps only
\* that it did) and answers 429 with its message once the count exceeds max.
RateLimitMiddleware(r, l) ==
  /\ Running(r, l)
  /\ LET req == reqs[r]
         key == LimiterKeyOf(l, req)
         totalHits == hits[l][key] + 1
         counted == [req EXCEPT !.counted = @ \cup {l}] IN
       /\ hits' = [hits EXCEPT ![l][key] = totalHits]
       /\ reqs' = [reqs EXCEPT ![r] =
            IF totalHits > LimiterMaxOf(l)
            THEN Reject(counted, 429, LimiterMessageOf(l))
            ELSE CallNext(counted, l)]

\* Mutant of WindowReset: the elapsed window releases one hit only.
WindowReleasesOneHit(l, k) ==
  /\ hits[l][k] > 0
  /\ hits' = [hits EXCEPT ![l][k] = @ - 1]
  /\ UNCHANGED reqs

\* windowMs have elapsed since the key's window started with its first
\* counted request: the store drops the key's count.
WindowReset(l, k) ==
  /\ hits[l][k] > 0
  /\ hits' = [hits EXCEPT ![l][k] = 0]
  /\ UNCHANGED reqs

\* ------------------------------------------------------------------------
\* Handlers and AirtableProvider
\* ------------------------------------------------------------------------

\* Mutant of HandlerConfirmationGiven: the handler compares the header with
\* 'true' as it came, without lower-casing it.
HandlerConfirmationCaseSensitive(confirmation) == confirmation = "true"

\* The test updateRecords runs on the confirmation header when the body
\* asks for a destructive update:
\* !(!confirmation || confirmation.toLowerCase() !== 'true')
HandlerConfirmationGiven(confirmation) ==
  /\ confirmation \notin {None, ""}
  /\ ToLowerCase(confirmation) = "true"

\* Mutant of HandlerValidation: the handlers do not check the number of
\* records.
HandlerValidationNoCeiling(req) ==
  CASE req.op \in {"createRecords", "deleteRecords"} ->
         IF req.records = NoRecords \/ req.records = 0 THEN "INVALID_REQUEST"
         ELSE "ok"
    [] req.op = "updateRecords" ->
         IF req.records = NoRecords \/ req.records = 0 THEN "INVALID_REQUEST"
         ELSE IF req.destructive /\ ~HandlerConfirmationGiven(req.xConfirm)
              THEN "CONFIRMATION_REQUIRED"
         ELSE "ok"
    [] req.op \in BodyCheckedOps ->
         IF ~req.bodyOk THEN "INVALID_REQUEST" ELSE "ok"
    [] OTHER -> "ok"

\* The validation each handler runs before it calls the provider: the error
\* type of the 400 response it sends, or "ok".
HandlerValidation(req) ==
  CASE req.op = "createRecords" ->
         IF req.records = NoRecords \/ req.records = 0 THEN "INVALID_REQUEST"
         ELSE IF req.records > MaxRecordsPerRequest THEN "INVALID_REQUEST"
         ELSE "ok"
    [] req.op = "updateRecords" ->
         IF req.records = NoRecords \/ req.records = 0 THEN "INVALID_REQUEST"
         ELSE IF req.records > MaxRecordsPerRequest THEN "INVALID_REQUEST"
         ELSE IF req.destructive /\ ~HandlerConfirmationGiven(req.xConfirm)
              THEN "CONFIRMATION_REQUIRED"
         ELSE "ok"
    [] req.op = "deleteRecords" ->
         IF req.records = NoRecords \/ req.records = 0 THEN "INVALID_REQUEST"
         ELSE IF req.records > MaxRecordsPerRequest THEN "INVALID_REQUEST"
         ELSE "ok"
    [] req.op \in BodyCheckedOps ->
         IF ~req.bodyOk THEN "INVALID_REQUEST" ELSE "ok"
    [] OTHER -> "ok"

\* The HTTP method of the provider call.
MethodOf(req) ==
  CASE req.op \in {"createRecords", "createField", "createWebhook"} -> "post"
    [] req.op = "updateRecords" ->
         IF req.destructive THEN "put" ELSE "patch"
    [] req.op = "updateField" -> "patch"
    [] req.op \in {"deleteRecords", "deleteWebhook"} -> "delete"
    [] OTHER -> "get"

\* Mutant of Handler: the validation error is sent without a return, and the
\* handler goes on to the provider call.
HandlerWithoutReturn(r) ==
  /\ Running(r, "handler")
  /\ LET req == reqs[r]
         v == HandlerValidation(req)
         called == [req EXCEPT
                      !.ctl = "awaiting", !.calls = 1,
                      !.method = MethodOf(req), !.sentToken = req.token,
                      !.passed = @ \cup {"handler"}] IN
       reqs' = [reqs EXCEPT ![r] =
         IF v # "ok"
         THEN [called EXCEPT !.sent = @ + 1,
                             !.res = [status |-> 400, type |-> v]]
         ELSE called]
  /\ UNCHANGED hits

\* The handler validates the request, then builds an AirtableProvider with
\* req.token and awaits its call.
Handler(r) ==
  /\ Running(r, "handler")
  /\ LET req == reqs[r]
         v == HandlerValidation(req) IN
       reqs' = [reqs EXCEPT ![r] =
         IF v # "ok" THEN Reject(req, 400, v)
         ELSE [req EXCEPT
                 !.ctl = "awaiting", !.calls = 1,
                 !.method = MethodOf(req), !.sentToken = req.token,
                 !.passed = IF req.op = "updateRecords" /\ req.destructive
                            THEN @ \cup {"handler", "handlerConfirmation"}
                            ELSE @ \cup {"handler"}]]
  /\ UNCHANGED hits

\* What the upstream may answer to a call.
UpstreamAnswers ==
  {"200", "429", "404:NOT_FOUND", "422:INVALID_VALUE_FOR_COLUMN",
   "503:untyped", "502:nodata", "noresponse"}

\* error.response.status of an answer (0: the call got no response).
UpstreamStatusOf(answer) ==
  CASE answer = "200" -> 200
    [] answer = "429" -> 429
    [] answer = "404:NOT_FOUND" -> 404
    [] answer = "422:INVALID_VALUE_FOR_COLUMN" -> 422
    [] answer = "503:untyped" -> 503
    [] answer = "502:nodata" -> 502
    [] OTHER -> 0

\* error.response.data.error.type of an answer (None: the body has no
\* error.type).
UpstreamTypeOf(answer) ==
  CASE answer = "404:NOT_FOUND" -> "NOT_FOUND"
    [] answer = "422:INVALID_VALUE_FOR_COLUMN" -> "INVALID_VALUE_FOR_COLUMN"
    [] OTHER -> None

\* error.response.data is an object (FALSE: the response came without a
\* body that parses to one, and reading data.error raises a TypeError).
HasData(answer) == answer # "502:nodata"

\* _handleError: the error it throws.  With a response the error carries the
\* upstream status and type; without one, or when reading the response's
\* data raises, it is a plain Error (status 0 stands for no status field).
handleError(answer) ==
  IF UpstreamStatusOf(answer) # 0 /\ HasData(answer)
  THEN [status |-> UpstreamStatusOf(answer), type |-> UpstreamTypeOf(answer)]
  ELSE [status |-> 0, type |-> None]

\* handleErrorResponse: an error with both status and type is answered with
\* them, any other error with 500 SERVER_ERROR.
handleErrorResponse(error) ==
  IF error.status # 0 /\ error.type \notin {None, ""}
  THEN [status |-> error.status, type |-> error.type]
  ELSE [status |-> 500, type |-> "SERVER_ERROR"]

\* _handleError followed by handleErrorResponse: the response sent for an
\* upstream failure.
ErrorResponseOf(answer) == handleErrorResponse(handleError(answer))

\* Mutant of IsOverload: a 5xx answer is taken for an overload as well.
IsOverloadOrServerError(answer) == UpstreamStatusOf(answer) >= 429

\* response && response.status === 429
IsOverload(answer) == UpstreamStatusOf(answer) = 429

\* The awaited call settles.  The response interceptor keeps a 429 away
\* from the handler: it waits and sends the call again.
UpstreamRespond(r, answer) ==
  /\ reqs[r].ctl = "awaiting"
  /\ IsOverload(answer) => reqs[r].calls < MaxCalls
  /\ LET req == reqs[r] IN
       reqs' = [reqs EXCEPT ![r] =
         CASE IsOverload(answer) ->
                [req EXCEPT !.ctl = "cooldown",
                            !.answers = Append(@, answer)]
           [] answer = "200" ->
                [req EXCEPT !.ctl = "ended", !.sent = @ + 1,
                            !.answers = Append(@, answer),
                            !.res = [status |-> 200, type |-> "OK"]]
           [] OTHER ->
                CatchAndRespond([req EXCEPT !.answers = Append(@, answer)],
                                "handler", ErrorResponseOf(answer))]
  /\ UNCHANGED hits

\* Mutant of CooldownElapsed: the timer releases every request that waits
\* (the requests share one retry state).
CooldownElapsedForAll(r) ==
  /\ reqs[r].ctl = "cooldown"
  /\ reqs' = [s \in Slots |->
               IF reqs[s].ctl = "cooldown"
               THEN [reqs[s] EXCEPT !.ctl = "awaiting",
                                    !.waited = @ + CooldownMs,
                                    !.calls = @ + 1]
               ELSE reqs[s]]
  /\ UNCHANGED hits

\* Mutant of CooldownElapsed: the request is sent through its array again.
RetryThroughChain(r) ==
  /\ reqs[r].ctl = "cooldown"
  /\ reqs' = [reqs EXCEPT ![r] = [@ EXCEPT !.ctl = "run", !.idx = 1]]
  /\ UNCHANGED hits

\* Mutant of CooldownElapsed: the call is sent again at once.
RetryWithoutCooldown(r) ==
  /\ reqs[r].ctl = "cooldown"
  /\ reqs' = [reqs EXCEPT ![r] = [@ EXCEPT !.ctl = "awaiting",
                                            !.calls = @ + 1]]
  /\ UNCHANGED hits

\* setTimeout(resolve, 30000) fires: return this.api(config).  The model
\* counts the calls and the time waited up to MaxCalls calls.
CooldownElapsed(r) ==
  /\ reqs[r].ctl = "cooldown"
  /\ reqs' = [reqs EXCEPT ![r] =
       IF reqs[r].calls < MaxCalls
       THEN [@ EXCEPT !.ctl = "awaiting", !.waited = @ + CooldownMs,
                      !.calls = @ + 1]
       ELSE [@ EXCEPT !.ctl = "awaiting"]]
  /\ UNCHANGED hits

\* The upstream answers 429 to a call beyond the MaxCalls the model counts:
\* the interceptor waits and sends the call again, as for every 429.
OverloadPersists(r) ==
  /\ reqs[r].ctl = "awaiting"
  /\ reqs[r].calls = MaxCalls
  /\ reqs' = [reqs EXCEPT ![r] = [@ EXCEPT !.ctl = "cooldown"]]
  /\ UNCHANGED hits

\* The response is out and the request object is dropped.
Retire(r) ==
  /\ reqs[r].ctl = "ended"
  /\ reqs' = [reqs EXCEPT ![r] = Idle]
  /\ UNCHANGED hits

\* ------------------------------------------------------------------------
\* Specifications
\* ------------------------------------------------------------------------

\* One step of the request in slot r on a route without the confirmation
\* middleware, up to the upstream call.
ChainStep(r) ==
  \/ AuthMiddleware(r)
  \/ FeatureCheckMiddleware(r)
  \/ ScopeCheckMiddleware(r)
  \/ \E l \in Limiters : RateLimitMiddleware(r, l)
  \/ Handler(r)
  \/ Retire(r)

\* One step of the request in slot r on any route, with any upstream answer.
RequestStep(r) ==
  \/ ChainStep(r)
  \/ ConfirmDestructiveOperationMiddleware(r)
  \/ \E answer \in UpstreamAnswers : UpstreamRespond(r, answer)
  \/ CooldownElapsed(r)

\* Spec: one request at a time from one client, over every route and every
\* combination of headers and payload; the per-base limiter can be exhausted.
SpecInputs ==
  InputSet(Ops,
           {<<>>, <<"Basic", "patA">>, <<"Bearer", "">>, <<"Bearer", "patA">>},
           {None, "teams", "business", "enterprise_scale", "gold"},
           {None, RECORDS_WRITE, AllScopesHeader},
           {"TRUE", "false"},
           {0, 1, MaxRecordsPerRequest, MaxRecordsPerRequest + 1},
           {"appA"}, {"ip1"})

SpecCap ==
  [l \in Limiters |->
     IF l = "baseRateLimitMiddleware"
     THEN BaseLimiterMax + MaxOver ELSE MaxUserBurst]

Next ==
  \/ Arrive(1, SpecInputs, SpecCap)
  \/ RequestStep(1)
  \/ \E l \in Limiters : WindowReset(l, "ip1")

Spec == Init /\ [][Next]_vars

\* SpecConc: requests in all slots at once from one client, on one route of
\* each limiter, the upstream answering 200; both limiters can be exhausted.
ConcInputs ==
  InputSet({"getTableRecords", "getBases"}, {<<"Bearer", "patA">>}, {None},
           {AllScopesHeader}, {}, {}, {"appA"}, {"ip1"})

ConcCap == [l \in Limiters |-> LimiterMaxOf(l) + MaxOver]

NextConc ==
  \/ \E r \in Slots : Arrive(r, ConcInputs, ConcCap)
  \/ \E r \in Slots : ChainStep(r) \/ UpstreamRespond(r, "200")
  \/ \E l \in Limiters : WindowReset(l, "ip1")

SpecConc == Init /\ [][NextConc]_vars

\* SpecKeys: one request at a time from two clients, for two bases and with
\* two tokens, on one route of each limiter.
KeysInputs ==
  InputSet({"getTableRecords", "getBases"},
           {<<"Bearer", t>> : t \in Tokens}, {None},
           {AllScopesHeader}, {}, {}, Bases, Ips)

NextKeys ==
  \/ Arrive(1, KeysInputs, SpecCap)
  \/ ChainStep(1)
  \/ \E answer \in {"200", "404:NOT_FOUND"} : UpstreamRespond(1, answer)
  \/ \E l \in Limiters, k \in Keys : WindowReset(l, k)

SpecKeys == Init /\ [][NextKeys]_vars

\* SpecLive: one request at a time, the upstream free to answer 429 to every
\* call.  The server runs the code of a request that holds control, the
\* upstream answers every call and every timer fires.
LiveInputs ==
  InputSet({"getTableRecords", "deleteRecords"}, {<<>>, <<"Bearer", "patA">>},
           {None}, {None, AllScopesHeader}, {"TRUE"},
           {1, MaxRecordsPerRequest + 1}, {"appA"}, {"ip1"})

StageStep(r) == ChainStep(r) \/ ConfirmDestructiveOperationMiddleware(r)

UpstreamAnswer(r) ==
  \/ \E answer \in UpstreamAnswers : UpstreamRespond(r, answer)
  \/ OverloadPersists(r)

NextLive ==
  \/ Arrive(1, LiveInputs, SpecCap)
  \/ StageStep(1)
  \/ UpstreamAnswer(1)
  \/ CooldownElapsed(1)
  \/ \E l \in Limiters : WindowReset(l, "ip1")

SpecLive ==
  /\ Init
  /\ [][NextLive]_vars
  /\ WF_vars(StageStep(1))
  /\ WF_vars(UpstreamAnswer(1))
  /\ WF_vars(CooldownElapsed(1))

\* SpecPar: requests in all slots at once, with two tokens, the upstream
\* answering with success, overload or not-found.
ParInputs ==
  InputSet({"getTableRecords"}, {<<"Bearer", t>> : t \in Tokens}, {None},
           {None}, {}, {}, {"appA"}, {"ip1"})

ParCap == [l \in Limiters |-> MaxUserBurst]

NextPar ==
  \/ \E r \in Slots : Arrive(r, ParInputs, ParCap)
  \/ \E r \in Slots : ChainStep(r)
  \/ \E r \in Slots, answer \in {"200", "429", "404:NOT_FOUND"} :
       UpstreamRespond(r, answer)
  \/ \E r \in Slots : CooldownElapsed(r)
  \/ \E l \in Limiters : WindowReset(l, "ip1")

SpecPar == Init /\ [][NextPar]_vars

\* SpecCred: requests in all slots at once that carry the same token and
\* differ in their other headers, on a route of the base_data feature and a
\* route of the webhooks feature.
CredInputs ==
  InputSet({"getTableRecords", "listWebhooks"}, {<<"Bearer", "patA">>},
           {None, "enterprise_scale"}, {None, AllScopesHeader}, {}, {},
           {"appA"}, {"ip1"})

CredCap == [l \in Limiters |-> MaxUserBurst]

NextCred ==
  \/ \E r \in Slots : Arrive(r, CredInputs, CredCap)
  \/ \E r \in Slots : ChainStep(r) \/ UpstreamRespond(r, "200")
  \/ \E l \in Limiters : WindowReset(l, "ip1")

SpecCred == Init /\ [][NextCred]_vars

\* ------------------------------------------------------------------------
\* Notions the claims use
\* ------------------------------------------------------------------------

\* A destructive operation: a deletion, or an update issued as a PUT.
IsDestructive(req) ==
  \/ req.op \in {"deleteRecords", "deleteWebhook"}
  \/ req.op = "updateRecords" /\ req.destructive

\* The request carries X-Confirm-Destructive-Operation set to true.
CarriesConfirmation(req) == req.xConfirm \in {"true", "True", "TRUE"}

\* The stages of the pipeline in their contractual order: 1 Authenticate,
\* 2 Entitlement, 3 Scope, 4 Destructive confirmation, 5 Admission.
\* Whether stage j (1..4) rejects the request, from its inputs alone.
StageWouldReject(j, req) ==
  CASE j = 1 -> AuthOutcome(req.authorization) = "reject"
    [] j = 2 -> FeatureOutcome(BillingPlanOf(req.xBillingPlan),
                               FeatureOf(req.op)) # "next"
    [] j = 3 -> ~hasRequiredScopesForEndpoint(TokenScopesOf(req.xTokenScopes),
                                              req.op)
    [] j = 4 -> IsDestructive(req) /\ ~CarriesConfirmation(req)

\* The stage whose rejection the response of a finished request is (0: the
\* response is no stage's rejection).
RespondingStage(req) ==
  CASE req.res = NoResponse \/ req.calls > 0 -> 0
    [] Chain(req.op)[req.idx] = "authMiddleware" -> 1
    [] Chain(req.op)[req.idx] = "featureCheckMiddleware" -> 2
    [] Chain(req.op)[req.idx] = "scopeCheckMiddleware" -> 3
    [] req.res.type = "CONFIRMATION_REQUIRED" -> 4
    [] req.res.status = 429 -> 5
    [] OTHER -> 0

\* The payload passes every validation of its handler.
WellFormedPayload(req) ==
  /\ req.op \in BatchOps => req.records \in 1..MaxRecordsPerRequest
  /\ req.bodyOk

\* ------------------------------------------------------------------------
\* Claims
\* ------------------------------------------------------------------------

AdmittedByAllStages(req) ==
  /\ {"authMiddleware", "featureCheckMiddleware", "scopeCheckMiddleware"}
       \subseteq req.passed
  /\ req.passed \cap Limiters # {}
  /\ IsDestructive(req) =>
       req.passed \cap {"confirmDestructiveOperationMiddleware",
                        "handlerConfirmation"} # {}

\* C1: an upstream call is made for a request only after authentication,
\* entitlement, scope, confirmation (destructive operations) and rate-limit
\* admission have passed for it; once a response has been sent for a request,
\* no further stage runs and no upstream call is made for it.
C1_UpstreamOnlyAfterAllStages ==
  [][\A r \in Slots :
       /\ reqs'[r].calls > 0 => AdmittedByAllStages(reqs'[r])
       /\ reqs[r].res # NoResponse => reqs'[r] \in {reqs[r], Idle}]_vars

\* C1 witness: a destructive request has been answered from the upstream.
C1_Witness ==
  \E r \in Slots :
    /\ IsDestructive(reqs[r])
    /\ reqs[r].calls > 0
    /\ reqs[r].res.status = 200

\* C2 (as claimed): the rejection a request receives is that of the earliest
\* stage, in the order Authenticate, Entitlement, Scope, Confirmation,
\* Admission, that rejects it: no earlier stage would have rejected it.
C2_EarliestFailingStageWins ==
  \A r \in Slots :
    \A j \in 1..4 :
      j < RespondingStage(reqs[r]) => ~StageWouldReject(j, reqs[r])

\* C3: no upstream call of a destructive operation (a DELETE, or the PUT of
\* updateRecords) is made unless the request carried the confirmation header
\* set to true.
C3_DestructiveCallNeedsConfirmation ==
  \A r \in Slots :
    (reqs[r].calls > 0 /\ reqs[r].method \in {"delete", "put"})
      => CarriesConfirmation(reqs[r])

\* C3 witness: a confirmed destructive PUT has reached the upstream.
C3_Witness ==
  \E r \in Slots :
    /\ reqs[r].calls > 0
    /\ reqs[r].method = "put"
    /\ reqs[r].xConfirm = "TRUE"

\* C4 (as claimed): no step of a destructive request without confirmation
\* changes a rate-limiter count.
C4_UnconfirmedLeavesCountsUnchanged ==
  [][\A r \in Slots :
       (/\ IsDestructive(reqs[r])
        /\ ~CarriesConfirmation(reqs[r])
        /\ reqs'[r] # reqs[r])
         => hits' = hits]_vars

\* C5: the step that rejects a request at Authenticate, Entitlement or Scope
\* changes no rate-limiter count, and no limiter has counted that request
\* before.
C5_EarlyRejectionLeavesCountsUnchanged ==
  [][\A r \in Slots :
       (/\ reqs[r].res = NoResponse
        /\ RespondingStage(reqs'[r]) \in {1, 2, 3})
         => hits' = hits /\ reqs'[r].counted = {}]_vars

\* C5 witness: a request is rejected at Scope while the per-base limiter
\* holds hits of earlier requests.
C5_Witness ==
  \E r \in Slots :
    /\ reqs[r].res.type = "INSUFFICIENT_PERMISSIONS"
    /\ hits["baseRateLimitMiddleware"]["ip1"] > 0

\* C6 (as claimed): for a destructive request that passes authentication,
\* entitlement and scope and is not rate-limited, the request without
\* confirmation is rejected with CONFIRMATION_REQUIRED and the request with
\* confirmation and a well-formed payload reaches the upstream.
C6_ConfirmationAloneDecides ==
  \A r \in Slots :
    (/\ reqs[r].res # NoResponse
     /\ IsDestructive(reqs[r])
     /\ \A j \in 1..3 : ~StageWouldReject(j, reqs[r])
     /\ reqs[r].res.status # 429)
      => /\ ~CarriesConfirmation(reqs[r])
              => reqs[r].res.type = "CONFIRMATION_REQUIRED"
         /\ (CarriesConfirmation(reqs[r]) /\ WellFormedPayload(reqs[r]))
              => reqs[r].calls > 0

\* The documented limit of each limiter.
DocLimitOf(l) ==
  IF l = "baseRateLimitMiddleware" THEN DocBaseLimit ELSE DocUserLimit

\* Request r takes its step through limiter l.
LimiterStep(r, l) == l \notin reqs[r].counted /\ l \in reqs'[r].counted

\* C7: whatever the interleaving of the requests sharing a key, every check
\* of a limiter is counted, a request is admitted exactly when fewer than the
\* documented limit (5 per-base, 50 per-user) were counted before it in the
\* key's window, and a request that is not admitted is answered 429 and makes
\* no upstream call.
C7_AtMostLimitAdmittedPerWindow ==
  [][\A r \in Slots :
       /\ \A l \in Limiters :
            LimiterStep(r, l) =>
              LET k == LimiterKeyOf(l, reqs[r]) IN
                /\ hits'[l][k] = hits[l][k] + 1
                /\ l \in reqs'[r].passed <=> hits[l][k] < DocLimitOf(l)
                /\ l \notin reqs'[r].passed =>
                     /\ reqs'[r].res.status = 429
                     /\ reqs'[r].ctl = "ended"
       /\ reqs[r].res.status = 429 => reqs'[r].calls = 0]_vars

\* C7 witness: with the per-base key exhausted too, a request is rejected by
\* the per-user limiter while another request, admitted on the same key, is
\* awaiting the upstream.
C7_Witness ==
  \E r1, r2 \in Slots :
    /\ reqs[r1].res.type = "USER_RATE_LIMIT_REACHED"
    /\ reqs[r2].op = "getBases"
    /\ reqs[r2].ctl = "awaiting"
    /\ hits["baseRateLimitMiddleware"]["ip1"] > DocBaseLimit

C9_BothLimitersChecked ==
  \A r \in Slots :
    (reqs[r].calls > 0 \/ RespondingStage(reqs[r]) = 5)
      => reqs[r].counted = Limiters

\* C10 (as claimed): the count a request moves in the per-base limiter is
\* the one of its target base, and in the per-user limiter the one of its
\* credential.
C10_CountsPartitionedByBaseAndCredential ==
  [][\A r \in Slots, l \in Limiters, k \in Keys :
       (LimiterStep(r, l) /\ hits'[l][k] # hits[l][k])
         => k = IF l = "baseRateLimitMiddleware"
                THEN reqs[r].baseId ELSE reqs[r].token]_vars

\* ------------------------------------------------------------------------
\* Upstream calls: retry on overload, other failures
\* ------------------------------------------------------------------------

\* The upstream failed the call with something other than overload.
IsOtherFailure(answer) == answer \notin {"200", "429"}

\* C11: a request whose first upstream call is answered 429 and whose
\* second call is answered with success returns that success, after one
\* cooldown wait of 30 s and one retry: two upstream calls in all.
C11_OverloadOnceThenSuccess ==
  \A r \in Slots :
    reqs[r].answers = <<"429", "200">> =>
      /\ reqs[r].ctl = "ended"
      /\ reqs[r].sent = 1
      /\ reqs[r].res.status = 200
      /\ reqs[r].calls = 2
      /\ reqs[r].waited = CooldownMs

C11_Witness ==
  \E r \in Slots :
    /\ reqs[r].answers = <<"429", "200">>
    /\ reqs[r].res.status = 200
    /\ reqs[r].calls = 2

\* C12 (as claimed): when the upstream answers every call with 429 the
\* request ends with an upstream error after one retry, and no request ever
\* causes more than two upstream calls.
C12_NeverRetriesTwice ==
  \A r \in Slots :
    /\ reqs[r].calls <= 2
    /\ reqs[r].answers = <<"429", "429">> =>
         reqs[r].ctl = "ended" /\ reqs[r].res.status >= 400

\* C13: an upstream failure other than overload ends the request at once:
\* no further call is made, the failure is answered to the caller, and when
\* it is the answer to the first call exactly one call was made.
C13_OtherFailuresNotRetried ==
  [][\A r \in Slots :
       LET old == reqs[r]
           new == reqs'[r] IN
         (/\ Len(new.answers) = Len(old.answers) + 1
          /\ IsOtherFailure(new.answers[Len(new.answers)])) =>
           /\ new.ctl = "ended"
           /\ new.calls = old.calls
           /\ new.waited = old.waited
           /\ new.sent = 1
           /\ new.res.status >= 400
           /\ (old.answers = <<>> => new.calls = 1)]_vars

C13_Witness ==
  \E r \in Slots :
    /\ reqs[r].answers = <<"503:untyped">>
    /\ reqs[r].ctl = "ended"
    /\ reqs[r].calls = 1
    /\ reqs[r].res.status >= 400

\* The handler of the request has run and sent the response itself, without
\* a call to the upstream.
RejectedByHandler(req) ==
  /\ req.ctl = "ended"
  /\ LimiterOf(req.op) \in req.passed
  /\ req.calls = 0

\* The upstream answered with an HTTP response.
HasResponse(answer) == UpstreamStatusOf(answer) # 0

\* C14 (as claimed): the response sent for an upstream failure other than
\* overload that came with an HTTP response carries the upstream's status
\* and error type unchanged, whatever the upstream's error body contains.
C14_UpstreamErrorPreserved ==
  \A r \in Slots :
    LET req == reqs[r]
        n == Len(req.answers) IN
      (/\ req.ctl = "ended"
       /\ n > 0
       /\ IsOtherFailure(req.answers[n])
       /\ HasResponse(req.answers[n])) =>
        /\ req.res.status = UpstreamStatusOf(req.answers[n])
        /\ req.res.type = UpstreamTypeOf(req.answers[n])

\* C15: for createRecords, updateRecords and deleteRecords, no upstream call
\* is ever made for a batch of more than 10 records and the handler answers
\* it 400 INVALID_REQUEST; a batch of 1 to 10 records that reaches the
\* handler is forwarded (or, for an unconfirmed destructive update, answered
\* CONFIRMATION_REQUIRED), never rejected for its size.
C15_BatchCeiling ==
  \A r \in Slots :
    LET req == reqs[r] IN
      (req.op \in BatchOps /\ req.records # NoRecords) =>
        /\ req.records > MaxRecordsPerRequest =>
             /\ req.calls = 0
             /\ req.ctl \notin {"awaiting", "cooldown"}
             /\ RejectedByHandler(req) =>
                  req.res = [status |-> 400, type |-> "INVALID_REQUEST"]
        /\ (req.records \in 1..MaxRecordsPerRequest /\ RejectedByHandler(req))
             => req.res.type # "INVALID_REQUEST"

C15_Witness ==
  \E r \in Slots :
    /\ reqs[r].op \in BatchOps
    /\ reqs[r].records = MaxRecordsPerRequest + 1
    /\ RejectedByHandler(reqs[r])
    /\ reqs[r].res = [status |-> 400, type |-> "INVALID_REQUEST"]

\* ------------------------------------------------------------------------
\* Entitlement, scope and authentication decisions
\* ------------------------------------------------------------------------

\* The stage of the request's array has taken its decision on the request.
Decided(req, stage) ==
  /\ req.ctl # "idle"
  /\ \E i \in 1..Len(Chain(req.op)) :
       /\ Chain(req.op)[i] = stage
       /\ \/ req.idx > i
          \/ req.idx = i /\ req.ctl = "ended"

\* The plan lists the feature in its own entry of PLAN_FEATURES.
Grants(plan, feature) == KnownPlan(plan) /\ feature \in PLAN_FEATURES(plan)

\* The elements of a sequence.
Range(seq) == {seq[i] : i \in 1..Len(seq)}

\* The required scopes of the request's endpoint that the token lacks.
MissingScopes(req) ==
  Range(ENDPOINT_SCOPES(req.op)) \ Range(req.tokenScopes)

\* C16: hasFeature(plan, feature) is true exactly when the feature is listed
\* in the plan's own entry of PLAN_FEATURES, which is the documented matrix,
\* for the 4 plans and the 7 features; and every decision the entitlement
\* stage takes on a request of a known plan follows the documented matrix.
C16_HasFeatureIsOwnEntry ==
  /\ \A i \in 1..Len(PLANS), f \in FEATURES :
       /\ (hasFeature(PLANS[i], f) = "true") <=> (f \in PLAN_FEATURES(PLANS[i]))
       /\ (hasFeature(PLANS[i], f) = "true") <=> (PLANS[i] \in DocPlansOf(f))
       /\ hasFeature(PLANS[i], f) \in {"true", "false"}
  /\ \A r \in Slots :
       LET req == reqs[r] IN
         (Decided(req, "featureCheckMiddleware") /\ KnownPlan(req.billingPlan))
           => ("featureCheckMiddleware" \in req.passed
                 <=> req.billingPlan \in DocPlansOf(FeatureOf(req.op)))

C16_Witness ==
  \E r \in Slots :
    /\ Decided(reqs[r], "featureCheckMiddleware")
    /\ reqs[r].billingPlan = "business"
    /\ FeatureOf(reqs[r].op) = "webhooks"
    /\ "featureCheckMiddleware" \notin reqs[r].passed

\* C17 (as claimed): the entitlement stage answers 403 FEATURE_UNAVAILABLE
\* exactly when the caller's plan does not grant the operation's feature,
\* and the plan it names grants the feature and is the first that does in
\* the order free, teams, business, enterprise_scale.
C17_FeatureUnavailableIffNotGranted ==
  \A r \in Slots :
    LET req == reqs[r]
        f == FeatureOf(req.op) IN
      Decided(req, "featureCheckMiddleware") =>
        /\ (req.res = [status |-> 403, type |-> "FEATURE_UNAVAILABLE"])
             <=> ~Grants(req.billingPlan, f)
        /\ req.res.type = "FEATURE_UNAVAILABLE" =>
             \E i \in 1..Len(PLANS) :
               /\ req.requiredPlan = PLANS[i]
               /\ Grants(PLANS[i], f)
               /\ \A j \in 1..(i - 1) : ~Grants(PLANS[j], f)

\* C18: the scope stage answers 403 INSUFFICIENT_PERMISSIONS exactly when
\* the token's scopes lack a scope the endpoint requires, and the scopes the
\* answer names are the missing ones.
C18_InsufficientPermissionsIffMissing ==
  \A r \in Slots :
    LET req == reqs[r] IN
      Decided(req, "scopeCheckMiddleware") =>
        /\ (req.res = [status |-> 403, type |-> "INSUFFICIENT_PERMISSIONS"])
             <=> MissingScopes(req) # {}
        /\ ("scopeCheckMiddleware" \in req.passed) <=> MissingScopes(req) = {}
        /\ req.res.type = "INSUFFICIENT_PERMISSIONS" =>
             Range(req.namedScopes) = MissingScopes(req)

C18_Witness ==
  \E r \in Slots :
    /\ reqs[r].op = "getTableRecords"
    /\ reqs[r].tokenScopes = <<RECORDS_WRITE>>
    /\ reqs[r].res = [status |-> 403, type |-> "INSUFFICIENT_PERMISSIONS"]
    /\ reqs[r].namedScopes = <<RECORDS_READ>>

\* The authentication stage answered the request itself.
RejectedByAuth(req) ==
  /\ req.ctl = "ended"
  /\ Chain(req.op)[req.idx] = "authMiddleware"

\* C19 (as claimed): a request without Authorization header, with a header
\* that does not start with 'Bearer ', or with an empty token is answered by
\* the first stage, before any other stage runs, with status 401 and the
\* documented error type UNAUTHORIZED.
C19_UnauthenticatedIs401Unauthorized ==
  \A r \in Slots :
    LET req == reqs[r] IN
      /\ (req.ctl = "ended" /\ AuthOutcome(req.authorization) = "reject")
           => RejectedByAuth(req) /\ req.passed = {} /\ req.counted = {}
      /\ RejectedByAuth(req) =>
           req.res = [status |-> 401, type |-> DocUnauthorizedType]

\* C20 (as claimed): two requests for the same operation that carry the
\* same credential resolve to the same plan and scopes and get the same
\* entitlement and scope decisions.
C20_PrincipalDeterminedByCredential ==
  \A r1 \in Slots, r2 \in Slots :
    LET a == reqs[r1]
        b == reqs[r2] IN
      (/\ "authMiddleware" \in a.passed
       /\ "authMiddleware" \in b.passed
       /\ a.op = b.op
       /\ a.token = b.token) =>
        /\ a.billingPlan = b.billingPlan
        /\ a.tokenScopes = b.tokenScopes
        /\ (/\ Decided(a, "featureCheckMiddleware")
            /\ Decided(b, "featureCheckMiddleware")) =>
             ("featureCheckMiddleware" \in a.passed
                <=> "featureCheckMiddleware" \in b.passed)
        /\ (/\ Decided(a, "scopeCheckMiddleware")
            /\ Decided(b, "scopeCheckMiddleware")) =>
             ("scopeCheckMiddleware" \in a.passed
                <=> "scopeCheckMiddleware" \in b.passed)

\* ------------------------------------------------------------------------
\* Error responses
\* ------------------------------------------------------------------------

\* The request ended with a failure response.
Failed(req) == req.ctl = "ended" /\ req.res.status >= 400

\* The error types that stand for a kind of the taxonomy: the documented
\* ones, and the per-user variant of the rate-limit type.
TaxonomyTypes == DocErrorTypes \cup {"USER_RATE_LIMIT_REACHED"}

\* C21 (as claimed): every failure response carries one error kind, and
\* the kind is one of the closed set of taxonomy kinds, however the request
\* came to fail.
C21_FailureKindInTaxonomy ==
  \A r \in Slots :
    Failed(reqs[r]) =>
      /\ reqs[r].sent = 1
      /\ reqs[r].res.type \in TaxonomyTypes

\* C23 (as claimed): every request that enters the chain eventually ends,
\* with one response, whatever the upstream answers, provided the upstream
\* answers every call and the timers fire.
C23_EveryRequestEnds ==
  \A r \in Slots :
    /\ [](reqs[r].sent <= 1)
    /\ (reqs[r].ctl = "run") ~> (reqs[r].ctl = "ended")

\* ------------------------------------------------------------------------
\* Concurrent requests
\* ------------------------------------------------------------------------

\* C24: while a request is suspended in its cooldown, every other request
\* can take its next step: run the middleware or handler that holds
\* control, receive the answer of its upstream call, or arrive.
C24_CooldownDoesNotBlockOthers ==
  \A r1 \in Slots, r2 \in Slots :
    (r1 # r2 /\ reqs[r1].ctl = "cooldown") =>
      /\ reqs[r2].ctl = "run" => ENABLED ChainStep(r2)
      /\ reqs[r2].ctl = "awaiting" => ENABLED UpstreamRespond(r2, "200")
      /\ reqs[r2].ctl = "ended" => ENABLED Retire(r2)
      /\ (/\ reqs[r2].ctl = "idle"
          /\ hits["baseRateLimitMiddleware"]["ip1"] < MaxUserBurst)
           => ENABLED Arrive(r2, ParInputs, ParCap)

C24_Witness ==
  \E r1 \in Slots, r2 \in Slots :
    /\ r1 # r2
    /\ reqs[r1].ctl = "cooldown"
    /\ reqs[r2].ctl = "run"
    /\ "authMiddleware" \in reqs[r2].passed

\* ------------------------------------------------------------------------
\* Policy lookups, exceptions, retries
\* ------------------------------------------------------------------------

\* An operation name and a feature name that the tables do not hold.
UnknownEndpoint == "listTables"
UnknownFeature == "interfaces"

\* C25 (as claimed): the policy lookups for a name that is not in the
\* tables fail: with the plan and scopes of any authenticated request, the
\* entitlement check for an unknown feature does not pass and the scope
\* check for an unknown operation name does not pass.
C25_UnknownNameFailsLookup ==
  \A r \in Slots :
    "authMiddleware" \in reqs[r].passed =>
      /\ FeatureOutcome(reqs[r].billingPlan, UnknownFeature) = "SERVER_ERROR"
      /\ ~hasRequiredScopesForEndpoint(reqs[r].tokenScopes, UnknownEndpoint)

\* C26: every exception raised in a stage or a handler ends in the catch
\* block of that stage or handler as one error response; no request is
\* left to the application's error middleware.  This holds for the lookup
\* of an unknown plan and for every failure of the upstream call, the
\* failure to read the upstream's error body included.
C26_ExceptionsCaughtAtOrigin ==
  \A r \in Slots :
    LET req == reqs[r]
        n == Len(req.answers) IN
      /\ req.ctl # "thrown"
      /\ req.caught # None =>
           req.ctl = "ended" /\ req.sent = 1 /\ req.res.status >= 400
      /\ (/\ Decided(req, "featureCheckMiddleware")
          /\ ~KnownPlan(req.billingPlan)) =>
           req.caught = "featureCheckMiddleware"
      /\ (n > 0 /\ IsOtherFailure(req.answers[n])) => req.caught = "handler"

C26_Witness ==
  \E r \in Slots :
    /\ reqs[r].answers = <<"502:nodata">>
    /\ reqs[r].caught = "handler"
    /\ reqs[r].res = [status |-> 500, type |-> "SERVER_ERROR"]

\* C27: once the upstream call of a request is under way, its retries
\* change neither the stages the request has passed nor any limiter count,
\* and a limiter counts a request only if none has counted it before.
C27_RetryLeavesStagesAndCounts ==
  [][\A r \in Slots :
       /\ (reqs[r].ctl \in {"awaiting", "cooldown"} /\ reqs'[r] # reqs[r]) =>
            /\ hits' = hits
            /\ reqs'[r].passed = reqs[r].passed
            /\ reqs'[r].counted = reqs[r].counted
            /\ reqs'[r].idx = reqs[r].idx
            /\ reqs'[r].ctl \in {"awaiting", "cooldown", "ended"}
       /\ \A l \in Limiters : LimiterStep(r, l) => reqs[r].counted = {}]_vars

C27_Witness ==
  \E r \in Slots :
    /\ reqs[r].ctl = "awaiting"
    /\ reqs[r].calls = MaxCalls
    /\ reqs[r].counted = {LimiterOf(reqs[r].op)}
    /\ hits[LimiterOf(reqs[r].op)][reqs[r].ip] = 1

\* ------------------------------------------------------------------------
\* Descriptors, shared state, limiter identification
\* ------------------------------------------------------------------------

\* How many entries of the operation's array are the given middleware.
Occurrences(op, stage) ==
  Cardinality({i \in 1..Len(Chain(op)) : Chain(op)[i] = stage})

\* C28: every routed operation has one descriptor: its array checks one
\* feature, which is a feature of the plan table, and passes to the scope
\* check its own operation name, under which ENDPOINT_SCOPES holds a
\* non-empty list; the scope stage of every request checks that list.
C28_OneDescriptorPerOperation ==
  /\ \A op \in Ops :
       /\ Occurrences(op, "featureCheckMiddleware") = 1
       /\ Occurrences(op, "scopeCheckMiddleware") = 1
       /\ FeatureOf(op) \in FEATURES
       /\ ScopeEndpointOf(op) = op
       /\ ENDPOINT_SCOPES(ScopeEndpointOf(op)) # <<>>
  /\ \A r \in Slots :
       reqs[r].res.type = "INSUFFICIENT_PERMISSIONS" =>
         /\ reqs[r].namedScopes = ENDPOINT_SCOPES(reqs[r].op)
         /\ reqs[r].namedScopes # <<>>

C28_Witness ==
  \E r \in Slots :
    /\ reqs[r].op = "getEnterpriseUsers"
    /\ reqs[r].res.type = "INSUFFICIENT_PERMISSIONS"
    /\ reqs[r].namedScopes = <<"enterprise.user:read">>

\* C29: a step changes the record of one request at most, changes a
\* limiter count only when a limiter counts the request, and the upstream
\* client of a request carries that request's own token.
C29_OnlyLimiterCountsAreShared ==
  [][/\ \A r1 \in Slots, r2 \in Slots :
          (reqs'[r1] # reqs[r1] /\ reqs'[r2] # reqs[r2]) => r1 = r2
     /\ \A r \in Slots :
          /\ (reqs'[r] # reqs[r] /\ reqs'[r].counted = reqs[r].counted)
               => hits' = hits
          /\ reqs'[r].ctl \in {"awaiting", "cooldown"} =>
               /\ reqs'[r].sentToken = reqs'[r].token
               /\ reqs'[r].token = reqs'[r].authorization[2]]_vars

C29_Witness ==
  \E r1 \in Slots, r2 \in Slots :
    /\ reqs[r1].ctl = "cooldown"
    /\ reqs[r2].ctl = "cooldown"
    /\ reqs[r1].calls = 2
    /\ reqs[r2].calls = 1
    /\ reqs[r1].sentToken = "patA"
    /\ reqs[r2].sentToken = "patB"

\* C30: a request answered 429 was counted by the limiter of its route and
\* by no other, and the answer names that limiter: RATE_LIMIT_REACHED for
\* the per-base limiter, USER_RATE_LIMIT_REACHED for the per-user limiter.
C30_RejectionNamesTheLimiter ==
  \A r \in Slots :
    reqs[r].res.status = 429 =>
      /\ reqs[r].counted = {LimiterOf(reqs[r].op)}
      /\ reqs[r].calls = 0
      /\ "baseRateLimitMiddleware" \in reqs[r].counted
           => reqs[r].res.type = "RATE_LIMIT_REACHED"
      /\ "userRateLimitMiddleware" \in reqs[r].counted
           => reqs[r].res.type = "USER_RATE_LIMIT_REACHED"

C30_Witness ==
  \E r1 \in Slots, r2 \in Slots :
    /\ reqs[r1].res = [status |-> 429, type |-> "USER_RATE_LIMIT_REACHED"]
    /\ reqs[r2].res = [status |-> 429, type |-> "RATE_LIMIT_REACHED"]

\* ------------------------------------------------------------------------
\* C31
\* ------------------------------------------------------------------------

\* Values of the X-Confirm-Destructive-Operation header (None: absent).
ConfirmHeaderValues ==
  {None, "", "true", "True", "TRUE", "false", "False", "FALSE", "yes", "1"}

\* The values that equal 'true' when case is ignored.
TrueIgnoringCase == {"true", "True", "TRUE"}

\* The two tests decide alike for every header value, and accept exactly
\* the spellings of true.
SameDecisionForEveryValue ==
  \A c \in ConfirmHeaderValues :
    /\ HandlerConfirmationGiven(c) = ConfirmationGiven(c)
    /\ ConfirmationGiven(c) <=> c \in TrueIgnoringCase

\* C31: the confirmation test inside the updateRecords handler and the
\* confirmation middleware decide alike for every value of the header: each
\* accepts exactly when the header is present and equals 'true' ignoring
\* case.  No request passes either test with another value, and none is
\* answered CONFIRMATION_REQUIRED with such a value.
C31_ConfirmationChecksAgree ==
  /\ SameDecisionForEveryValue
  /\ \A r \in Slots :
       LET req == reqs[r] IN
         /\ "confirmDestructiveOperationMiddleware" \in req.passed
              => req.xConfirm \in TrueIgnoringCase
         /\ "handlerConfirmation" \in req.passed
              => req.xConfirm \in TrueIgnoringCase
         /\ (req.sent > 0 /\ req.res.type = "CONFIRMATION_REQUIRED")
              => req.xConfirm \notin TrueIgnoringCase

\* A destructive update confirmed with 'TRUE' went out as a PUT while, in
\* the same run of the gateway, the same header value passes the middleware
\* of a deletion.
C31_Witness ==
  \E r \in Slots :
    /\ reqs[r].op = "updateRecords"
    /\ reqs[r].destructive
    /\ reqs[r].xConfirm = "TRUE"
    /\ reqs[r].method = "put"
    /\ reqs[r].calls = 1
    /\ ConfirmationGiven(reqs[r].xConfirm)

\* ------------------------------------------------------------------------
\* C32
\* ------------------------------------------------------------------------

\* C32: the credential sent to the upstream is the token of the request's
\* Authorization header, and the token, plan tier and scopes that
\* authMiddleware attached to the request are what it read from the headers
\* and are changed by no later stage, handler, upstream answer or retry of
\* that request.
C32_CredentialAndPrincipalFixed ==
  /\ [](\A r \in Slots :
          LET req == reqs[r] IN
            /\ "authMiddleware" \in req.passed =>
                 /\ req.token = req.authorization[2]
                 /\ req.billingPlan = BillingPlanOf(req.xBillingPlan)
                 /\ req.tokenScopes = TokenScopesOf(req.xTokenScopes)
            /\ req.calls > 0 => req.sentToken = req.authorization[2])
  /\ [][\A r \in Slots :
          ("authMiddleware" \in reqs[r].passed /\ reqs'[r].ctl # "idle") =>
            /\ reqs'[r].authorization = reqs[r].authorization
            /\ reqs'[r].token = reqs[r].token
            /\ reqs'[r].billingPlan = reqs[r].billingPlan
            /\ reqs'[r].tokenScopes = reqs[r].tokenScopes
            /\ reqs[r].calls > 0 => reqs'[r].sentToken = reqs[r].sentToken]_vars

\* A request of plan business was sent to the upstream a second time, after
\* an overload, with the token of its Authorization header.
C32_Witness ==
  \E r \in Slots :
    /\ reqs[r].authorization = <<"Bearer", "patA">>
    /\ reqs[r].billingPlan = "business"
    /\ reqs[r].tokenScopes = SplitComma(AllScopesHeader)
    /\ reqs[r].calls = 2
    /\ reqs[r].sentToken = "patA"
    /\ reqs[r].ctl = "ended"

\* ------------------------------------------------------------------------
\* C33
\* ------------------------------------------------------------------------

\* The plan tiers the gateway knows.
NamedTiers == {"free", "teams", "business", "enterprise_scale"}

\* The request has passed authentication claiming a plan tier that is none
\* of the four.
ClaimsUnknownTier(req) ==
  /\ "authMiddleware" \in req.passed
  /\ req.billingPlan \notin NamedTiers

\* C33: a request whose claimed plan tier is not one of free, teams,
\* business, enterprise_scale never passes featureCheckMiddleware: the stage
\* catches the exception of hasFeature and answers 500 SERVER_ERROR, no
\* limiter counts the request and no upstream call is made.
C33_UnknownTierStopsAtEntitlement ==
  /\ [](\A r \in Slots :
          LET req == reqs[r] IN
            ClaimsUnknownTier(req) =>
              /\ "featureCheckMiddleware" \notin req.passed
              /\ req.counted = {}
              /\ req.calls = 0
              /\ req.ctl \in {"run", "ended"}
              /\ req.ctl = "run" =>
                   Chain(req.op)[req.idx] = "featureCheckMiddleware"
              /\ req.ctl = "ended" =>
                   /\ req.res = [status |-> 500, type |-> "SERVER_ERROR"]
                   /\ req.caught = "featureCheckMiddleware"
                   /\ req.sent = 1)
  /\ [][\A r \in Slots :
          (ClaimsUnknownTier(reqs[r]) /\ reqs'[r] # reqs[r]) =>
            hits' = hits]_vars

\* A request claiming the tier 'gold' was answered 500 SERVER_ERROR by the
\* entitlement stage while the limiter of its route has counted requests
\* of other tiers.
C33_Witness ==
  \E r \in Slots :
    /\ reqs[r].xBillingPlan = "gold"
    /\ reqs[r].ctl = "ended"
    /\ reqs[r].res = [status |-> 500, type |-> "SERVER_ERROR"]
    /\ reqs[r].caught = "featureCheckMiddleware"
    /\ hits[LimiterOf(reqs[r].op)][reqs[r].ip] > 0

\* ------------------------------------------------------------------------
\* C34
\* ------------------------------------------------------------------------

\* The request has passed authentication with a bearer token and neither
\* the X-Billing-Plan nor the X-Token-Scopes header.
BareBearerRequest(req) ==
  /\ "authMiddleware" \in req.passed
  /\ req.xBillingPlan = None
  /\ req.xTokenScopes = None

\* The two operations open to the default plan and scope.
DefaultReadOps == {"getTableRecords", "getRecord"}

C34_WitnessRejected ==
  \E r \in Slots :
    /\ BareBearerRequest(reqs[r])
    /\ reqs[r].op = "createRecords"
    /\ reqs[r].ctl = "ended"
    /\ reqs[r].res.type = "INSUFFICIENT_PERMISSIONS"
    /\ reqs[r].counted = {}

\* ------------------------------------------------------------------------
\* C35
\* ------------------------------------------------------------------------

\* The positions of the array of op at which stage stands.
PositionsOf(op, stage) ==
  {i \in DOMAIN Chain(op) : Chain(op)[i] = stage}

\* Some limiter of the array of op stands after the authentication,
\* entitlement and scope stages and before the handler.
LimiterGuardsHandler(op) ==
  \E i \in DOMAIN Chain(op) :
    /\ Chain(op)[i] \in Limiters
    /\ \A stage \in {"authMiddleware", "featureCheckMiddleware",
                      "scopeCheckMiddleware"} :
         \E j \in PositionsOf(op, stage) : j < i
    /\ PositionsOf(op, "handler") # {}
    /\ \A k \in PositionsOf(op, "handler") : i < k

\* All 14 arrays have such a limiter.
EveryRouteLimited ==
  /\ Cardinality(Ops) = 14
  /\ \A op \in Ops : LimiterGuardsHandler(op)

\* C35: no operation that can call the upstream bypasses rate limiting.
\* Each of the 14 routes has a limiter in its array, after the
\* authentication, entitlement and scope stages and before the handler; a
\* request whose handler runs or that has called the upstream was counted
\* by a limiter and let through by it, after passing the three stages.
C35_NoUpstreamCallBypassesLimiter ==
  /\ EveryRouteLimited
  /\ \A r \in Slots :
       LET req == reqs[r] IN
         /\ (req.calls > 0 \/ "handler" \in req.passed
              \/ (req.ctl = "run" /\ Chain(req.op)[req.idx] = "handler")) =>
              /\ req.counted \cap Limiters # {}
              /\ req.counted \subseteq req.passed
         /\ req.counted # {} =>
              {"authMiddleware", "featureCheckMiddleware",
               "scopeCheckMiddleware"} \subseteq req.passed

\* A request for the audit logs has called the upstream after the per-user
\* limiter counted it.
C35_Witness ==
  \E r \in Slots :
    /\ reqs[r].op = "getAuditLogs"
    /\ reqs[r].calls = 1
    /\ reqs[r].counted = {"userRateLimitMiddleware"}
    /\ "userRateLimitMiddleware" \in reqs[r].passed

\* ------------------------------------------------------------------------
\* C36
\* ------------------------------------------------------------------------

\* C36: on every path through an array and its handler, the exception paths
\* included, at most one response is sent for a request.  The step that
\* sends a response ends the request where it stands, without passing
\* control on and without an upstream call; a step that passes control on
\* sends nothing; and nothing more happens to a request that was answered.
C36_AtMostOneResponse ==
  /\ [](\A r \in Slots :
          /\ reqs[r].sent <= 1
          /\ reqs[r].sent = 1 <=> reqs[r].ctl = "ended"
          /\ reqs[r].sent = 0 <=> reqs[r].res = NoResponse)
  /\ [][\A r \in Slots :
          LET a == reqs[r]
              b == reqs'[r] IN
            /\ (b.sent # a.sent /\ b.ctl # "idle") =>
                 /\ a.sent = 0 /\ b.sent = 1
                 /\ b.ctl = "ended"
                 /\ b.idx = a.idx
                 /\ b.passed = a.passed
                 /\ b.calls = a.calls
            /\ (a.ctl # "idle" /\ b.ctl # "idle"
                /\ (b.idx # a.idx \/ b.passed # a.passed
                    \/ b.calls # a.calls)) =>
                 b.sent = 0
            /\ a.ctl = "ended" => b \in {a, Idle}]_vars

\* A handler's validation error is the one response of an update whose
\* batch is too large, sent after all stages passed and without an
\* upstream call.
C36_Witness ==
  \E r \in Slots :
    /\ reqs[r].op = "updateRecords"
    /\ reqs[r].records > MaxRecordsPerRequest
    /\ reqs[r].res = [status |-> 400, type |-> "INVALID_REQUEST"]
    /\ reqs[r].sent = 1
    /\ reqs[r].calls = 0

\* The exception path: a call that got no response from the upstream ended
\* in the catch of the handler with one response.
C36_WitnessException ==
  \E r \in Slots :
    /\ reqs[r].answers = <<"429", "noresponse">>
    /\ reqs[r].caught = "handler"
    /\ reqs[r].sent = 1

=============================================================================
